---------------------------- MODULE Spec2Model ----------------------------
(***************************************************************************)
(* Model of Project1.py: the batch pipeline of main() (data_preparation,   *)
(* feature_engineering, get_comparable_countries, then the menu loop over  *)
(* perform_regression, visualize_data and perform_panel_analysis).         *)
(*                                                                         *)
(* Encoding.  A data frame is a record [isNone, rows]; rows is a sequence  *)
(* of rows and a row is a function from column names to cells.  A cell of  *)
(* the CSV file is a natural number or NA (a missing value).  Countries    *)
(* are numbered so that the order of the numbers is the order of their     *)
(* names.  Per capita GNI is carried in hundredths (1145.01 is 114501).    *)
(* A float produced by a division is a record [k, n, d]: the fraction n/d  *)
(* in lowest terms when k = "fin", and IEEE's inf and nan otherwise.       *)
(***************************************************************************)
EXTENDS Integers, Sequences, FiniteSets, TLC

VARIABLES
    file,                    \* 'Global Economy Indicators.csv' on disk
    pc,                      \* position of main()
    df,                      \* df_clean / df_engineered (one object)
    comparable_countries_df, \* the merged table of get_comparable_countries
    selected_countries,      \* main's selected_countries
    artifacts,               \* files written so far
    panel_built,             \* PanelOLS(...) has been constructed
    not_found_reported,      \* the FileNotFoundError message was printed
    err                      \* exception that left main(), or "none"

vars == <<file, pc, df, comparable_countries_df, selected_countries,
          artifacts, panel_built, not_found_reported, err>>

----------------------------------------------------------------------------
(* Bounds of the model *)

MaxRows == 2
MaxPrepRows == 2
NumCountries == 4

----------------------------------------------------------------------------
(* Cells, headers, frames *)

NA == -1

NoneFrame == [isNone |-> TRUE, rows |-> <<>>]

Frame(rows) == [isNone |-> FALSE, rows |-> rows]

\* A header of the CSV file: the label with lead/trail blanks around it.
Header(name, pad) == [lead |-> pad, name |-> name, trail |-> pad]

str_strip(h) == h.name

columns_to_keep ==
    << "Country", "Year", "Population", "Gross Domestic Product (GDP)",
       "Per capita GNI", "Agriculture, hunting, forestry, fishing (ISIC A-B)",
       "Manufacturing (ISIC D)", "Transport, storage and communication (ISIC I)" >>

new_column_names(c) ==
    CASE c = "Gross Domestic Product (GDP)" -> "GDP"
      [] c = "Agriculture, hunting, forestry, fishing (ISIC A-B)" -> "Agriculture"
      [] c = "Manufacturing (ISIC D)" -> "Manufacturing"
      [] c = "Transport, storage and communication (ISIC I)" -> "Transport_Comm"
      [] OTHER -> c

Range(s) == {s[i] : i \in DOMAIN s}

\* The 8 retained columns under their new names.
RetainedColumns == {new_column_names(c) : c \in Range(columns_to_keep)}

----------------------------------------------------------------------------
(* data_preparation *)

\* pd.read_csv: the frame of the file's rows, or FileNotFoundError.
read_csv(f) == Frame(f.rows)

\* df.columns = df.columns.str.strip()
StripColumns(r) ==
    [n \in {str_strip(h) : h \in DOMAIN r} |->
        r[CHOOSE h \in DOMAIN r : str_strip(h) = n]]

\* df[columns_to_keep].rename(columns=new_column_names), one row
KeepAndRename(r) ==
    [n \in RetainedColumns |->
        r[CHOOSE c \in Range(columns_to_keep) : new_column_names(c) = n]]

\* dropna's test of one row (how='any' over the frame's own columns)
HasNA(r) == \E c \in DOMAIN r : r[c] = NA

RECURSIVE dropna(_)
dropna(rows) ==
    IF rows = <<>> THEN <<>>
    ELSE IF HasNA(Head(rows)) THEN dropna(Tail(rows))
         ELSE <<Head(rows)>> \o dropna(Tail(rows))

CleanRow(r) == KeepAndRename(StripColumns(r))

\* the 8 columns of every row, renamed
CleanRows(rows) == [i \in DOMAIN rows |-> CleanRow(rows[i])]

\* return an empty frame instead of None when the file is missing
data_preparation_empty_on_missing(f) ==
    IF ~f.exists THEN Frame(<<>>)
    ELSE Frame(dropna(CleanRows(read_csv(f).rows)))

\* dropna() before the 8 columns are selected
data_preparation_dropna_first(f) ==
    IF ~f.exists THEN NoneFrame
    ELSE Frame(CleanRows(dropna(read_csv(f).rows)))

data_preparation(f) ==
    IF ~f.exists THEN NoneFrame
    ELSE Frame(dropna(CleanRows(read_csv(f).rows)))

----------------------------------------------------------------------------
(* feature_engineering *)

Cents(x) == x * 100

\* the bands open on their upper bound
classify_income_group_strict(gni) ==
    IF gni < Cents(1145) THEN "Low income"
    ELSE IF gni < Cents(4515) THEN "Lower middle income"
    ELSE IF gni < Cents(14005) THEN "Upper middle income"
    ELSE "High income"

classify_income_group(gni) ==
    IF gni <= Cents(1145) THEN "Low income"
    ELSE IF gni <= Cents(4515) THEN "Lower middle income"
    ELSE IF gni <= Cents(14005) THEN "Upper middle income"
    ELSE "High income"

RECURSIVE GCD(_, _)
GCD(a, b) == IF b = 0 THEN a ELSE GCD(b, a % b)

NaN == [k |-> "nan", n |-> 0, d |-> 0]
Inf == [k |-> "inf", n |-> 1, d |-> 0]
Fin(a, b) == [k |-> "fin", n |-> a \div GCD(a, b), d |-> b \div GCD(a, b)]

\* Series / Series on non-negative numbers: no exception, IEEE results
FloatDiv(a, b) ==
    IF b = 0 THEN (IF a = 0 THEN NaN ELSE Inf) ELSE Fin(a, b)

\* float * 100
Times100(x) == IF x.k = "fin" THEN Fin(x.n * 100, x.d) ELSE x

Share(r, col) == Times100(FloatDiv(r[col], r["GDP"]))

Extend(r, col, v) == [c \in DOMAIN r \cup {col} |-> IF c = col THEN v ELSE r[c]]

EngineerRow(r) ==
    LET r1 == Extend(r, "Income_Group", classify_income_group(r["Per capita GNI"]))
        r2 == Extend(r1, "GDP_per_capita", FloatDiv(r["GDP"], r["Population"]))
        r3 == Extend(r2, "Agriculture_Share", Share(r, "Agriculture"))
        r4 == Extend(r3, "Manufacturing_Share", Share(r, "Manufacturing"))
    IN  Extend(r4, "Transport_Comm_Share", Share(r, "Transport_Comm"))

feature_engineering(d) == Frame([i \in DOMAIN d.rows |-> EngineerRow(d.rows[i])])

----------------------------------------------------------------------------
(* get_comparable_countries *)

min_population == 10000000
max_population == 50000000

RECURSIVE SumPopulation(_)
SumPopulation(rows) ==
    IF rows = <<>> THEN 0
    ELSE Head(rows)["Population"] + SumPopulation(Tail(rows))

RowsOf(rows, c) == SelectSeq(rows, LAMBDA r : r["Country"] = c)

\* Series.mean() of one group
MeanPopulation(rows, c) ==
    FloatDiv(SumPopulation(RowsOf(rows, c)), Len(RowsOf(rows, c)))

RECURSIVE SortedSeq(_)
SortedSeq(S) ==
    IF S = {} THEN <<>>
    ELSE LET m == CHOOSE x \in S : \A y \in S : x <= y
         IN  <<m>> \o SortedSeq(S \ {m})

\* drop_duplicates() / unique(): keep the first occurrence, in order
RECURSIVE KeepFirst(_, _)
KeepFirst(s, seen) ==
    IF s = <<>> THEN <<>>
    ELSE IF Head(s) \in seen THEN KeepFirst(Tail(s), seen)
         ELSE <<Head(s)>> \o KeepFirst(Tail(s), seen \cup {Head(s)})

drop_duplicates(s) == KeepFirst(s, {})

\* groupby(sort=False): the keys in the order of their first row
group_keys_unsorted(rows) ==
    drop_duplicates([i \in DOMAIN rows |-> rows[i]["Country"]])

\* the group keys of groupby('Country') (sort=True): ascending
group_keys(rows) == SortedSeq({rows[i]["Country"] : i \in DOMAIN rows})

\* df.groupby('Country')['Population'].mean().reset_index()
groupby_mean(rows) ==
    LET keys == group_keys(rows)
    IN  [i \in DOMAIN keys |->
            [Country |-> keys[i], Population |-> MeanPopulation(rows, keys[i])]]

\* float > int
FloatGt(x, m) ==
    IF x.k = "fin" THEN x.n > m * x.d ELSE x.k = "inf"

\* float >= int and float <= int
FloatGeq(x, m) ==
    IF x.k = "fin" THEN x.n >= m * x.d ELSE x.k = "inf"

FloatLeq(x, m) ==
    IF x.k = "fin" THEN x.n <= m * x.d ELSE FALSE

InBand(x) == FloatGeq(x, min_population) /\ FloatLeq(x, max_population)

\* df[['Country', 'Income_Group']].drop_duplicates()
country_income_map(rows) ==
    drop_duplicates([i \in DOMAIN rows |->
        [Country |-> rows[i]["Country"], Income_Group |-> rows[i]["Income_Group"]]])

\* pd.merge(left, right, on='Country', how='left')
RECURSIVE merge_left(_, _)
merge_left(left, right) ==
    IF left = <<>> THEN <<>>
    ELSE LET l == Head(left)
             m == SelectSeq(right, LAMBDA r : r.Country = l.Country)
             joined ==
                 IF m = <<>>
                 THEN << [Country |-> l.Country, Population |-> l.Population,
                          Income_Group |-> "NaN"] >>
                 ELSE [i \in DOMAIN m |->
                          [Country |-> l.Country, Population |-> l.Population,
                           Income_Group |-> m[i].Income_Group]]
         IN  joined \o merge_left(Tail(left), right)

\* the table the selection loop reads
comparable_countries(rows) ==
    merge_left(SelectSeq(groupby_mean(rows), LAMBDA a : InBand(a.Population)),
               country_income_map(rows))

groups == <<"High income", "Upper middle income", "Lower middle income", "Low income">>

Min(a, b) == IF a <= b THEN a ELSE b

\* s[:n]
Slice(s, n) == SubSeq(s, 1, Min(n, Len(s)))

\* comparable_countries_df[... == group]['Country'].unique()
group_countries(table, group) ==
    LET g == SelectSeq(table, LAMBDA t : t.Income_Group = group)
    IN  drop_duplicates([i \in DOMAIN g |-> g[i].Country])

\* the for loop, from the k-th group on
RECURSIVE select_from(_, _)
select_from(table, k) ==
    IF k > Len(groups) THEN <<>>
    ELSE Slice(group_countries(table, groups[k]), 3) \o select_from(table, k + 1)

get_comparable_countries(d) == select_from(comparable_countries(d.rows), 1)

----------------------------------------------------------------------------
(* perform_regression, perform_panel_analysis, visualize_data *)

\* A call into statsmodels, linearmodels, seaborn or open() returns or raises.
LibraryOutcomes == {"ok", "raise"}

\* df after perform_regression: y and X are selections, add_constant copies
DfAfterRegression(d) == d

\* df.set_index(['Country', 'Year'], inplace=True)
DfAfterPanelInplace(d) ==
    [d EXCEPT !.rows =
        [i \in DOMAIN d.rows |->
            [c \in DOMAIN d.rows[i] \ {"Country", "Year"} |-> d.rows[i][c]]]]

\* df after perform_panel_analysis: set_index returns a new frame
DfAfterPanel(d) == d

\* df after visualize_data: groupby results and df[...].copy() are new frames
DfAfterVisualize(d, vis_choice) == d

VisChoices == {"1", "2", "3", "4", "5", "x"}

ChartFile(vis_choice) ==
    CASE vis_choice = "1" -> "gdp_by_income_group_bar_chart.png"
      [] vis_choice = "2" -> "gdp_by_income_group_line_plot.png"
      [] vis_choice = "3" -> "gdp_comparative_facet_chart.png"
      [] vis_choice = "4" -> "sectoral_impact_scatter_plots.png"
      [] vis_choice = "5" -> "gdp_by_income_group_boxplot.png"

\* visualize_data returns without drawing
VisDrawsNothing(vis_choice, sel) ==
    \/ vis_choice \notin {"1", "2", "3", "4", "5"}
    \/ vis_choice = "3" /\ sel = <<>>

\* set_index(['Country', 'Year']) of a frame holding a key twice
HasDuplicateKey(rows) ==
    \E i, j \in DOMAIN rows :
        /\ i < j
        /\ rows[i]["Country"] = rows[j]["Country"]
        /\ rows[i]["Year"] = rows[j]["Year"]

----------------------------------------------------------------------------
(* The input files of the three specifications *)

Pads == {0, 1}

RawNames == Range(columns_to_keep) \cup {"CountryID"}

Cells(country, year, pop, gdp, gni, agri) ==
    [n \in RawNames |->
        CASE n = "Country" -> country
          [] n = "Year" -> year
          [] n = "Population" -> pop
          [] n = "Gross Domestic Product (GDP)" -> gdp
          [] n = "Per capita GNI" -> gni
          [] n = "Agriculture, hunting, forestry, fishing (ISIC A-B)" -> agri
          [] n = "Manufacturing (ISIC D)" -> 20
          [] n = "Transport, storage and communication (ISIC I)" -> 30
          [] OTHER -> 7]

\* a row of the file under headers padded with pad blanks
RawRow(cells, pad) ==
    [h \in {Header(n, pad) : n \in DOMAIN cells} |-> cells[h.name]]

CsvFile(rs, pad) ==
    [exists |-> TRUE, rows |-> [i \in DOMAIN rs |-> RawRow(rs[i], pad)]]

MissingFile == [exists |-> FALSE, rows |-> <<>>]

SeqsUpTo(S, n) == UNION {[1..k -> S] : k \in 0..n}

GniValues == {114500, 114501, 451500, 451501, 1400500, 1400501}

BaseCells == Cells(1, 1, 20000000, 200, 114500, 10)

MainCells ==
    {Cells(1, 1, 20000000, 200, g, 10) : g \in GniValues}
    \cup {Cells(1, 1, 20000000, 0, 114500, a) : a \in {0, 10}}
    \cup {Cells(1, 2, 20000000, 200, 1400501, 10)}
    \cup {[BaseCells EXCEPT !["Manufacturing (ISIC D)"] = NA]}

MainFiles ==
    {MissingFile} \cup {CsvFile(rs, 1) : rs \in SeqsUpTo(MainCells, MaxRows)}

PrepCells ==
    {BaseCells, Cells(2, 2, 20000000, 200, 114500, 10)}
    \cup {[BaseCells EXCEPT ![n] = NA] : n \in RawNames}
    \cup {[BaseCells EXCEPT !["Country"] = NA, !["Year"] = NA]}

PrepFiles ==
    {MissingFile}
    \cup {CsvFile(rs, p) : rs \in SeqsUpTo(PrepCells, MaxPrepRows), p \in Pads}

\* The rows of one country: (Population, Per capita GNI) year by year.
Profiles ==
    { <<>>,
      << <<20000000, 1400501>> >>,
      << <<5000000, 451501>>, <<15000000, 1400500>> >>,
      << <<10000000, 114501>>, <<90000000, 451500>> >>,
      << <<20000000, 114500>> >>,
      << <<20000000, 1400501>>, <<20000000, 114500>> >>,
      << <<30000000, 1400501>>, <<90000000, 1400501>> >> }

CountryRows(c, p) ==
    [y \in DOMAIN p |-> Cells(c, y, p[y][1], 200, p[y][2], 10)]

\* the orders in which the file lists the countries
Orders ==
    { [i \in 1..NumCountries |-> i],
      [i \in 1..NumCountries |-> NumCountries + 1 - i],
      [i \in 1..NumCountries |-> (i % NumCountries) + 1] }

RECURSIVE Blocks(_, _, _)
Blocks(prof, order, k) ==
    IF k > NumCountries THEN <<>>
    ELSE CountryRows(order[k], prof[order[k]]) \o Blocks(prof, order, k + 1)

SelFiles ==
    {CsvFile(Blocks(prof, order, 1), 0) :
        prof \in [1..NumCountries -> Profiles], order \in Orders}

----------------------------------------------------------------------------
(* main *)

InitWith(files) ==
    /\ file \in files
    /\ pc = "prepare"
    /\ df = NoneFrame
    /\ comparable_countries_df = <<>>
    /\ selected_countries = <<>>
    /\ artifacts = {}
    /\ panel_built = FALSE
    /\ not_found_reported = FALSE
    /\ err = "none"

Init == InitWith(MainFiles)

InitPrep == InitWith(PrepFiles)

InitSel == InitWith(SelFiles)

\* df_clean = data_preparation(file_path); if df_clean is None: return
CallDataPreparation ==
    /\ pc = "prepare"
    /\ df' = data_preparation(file)
    /\ not_found_reported' = ~file.exists
    /\ pc' = IF df'.isNone THEN "done" ELSE "engineer"
    /\ UNCHANGED <<file, comparable_countries_df, selected_countries,
                   artifacts, panel_built, err>>

\* df_engineered = feature_engineering(df_clean)
CallFeatureEngineering ==
    /\ pc = "engineer"
    /\ df' = feature_engineering(df)
    /\ pc' = "select"
    /\ UNCHANGED <<file, comparable_countries_df, selected_countries,
                   artifacts, panel_built, not_found_reported, err>>

\* selected_countries = get_comparable_countries(df_engineered)
CallGetComparableCountries ==
    /\ pc = "select"
    /\ comparable_countries_df' = comparable_countries(df.rows)
    /\ selected_countries' = get_comparable_countries(df)
    /\ pc' = "menu"
    /\ UNCHANGED <<file, df, artifacts, panel_built, not_found_reported, err>>

\* choice '1': perform_regression(df_engineered)
PerformRegression ==
    /\ pc = "menu"
    /\ df' = DfAfterRegression(df)
    /\ \E o \in LibraryOutcomes :
          IF o = "ok"
          THEN /\ artifacts' = artifacts \cup {"regression_summary.txt"}
               /\ UNCHANGED <<pc, err>>
          ELSE /\ pc' = "crashed"
               /\ err' = "perform_regression"
               /\ UNCHANGED artifacts
    /\ UNCHANGED <<file, comparable_countries_df, selected_countries,
                   panel_built, not_found_reported>>

\* choice '2': visualize_data(df_engineered, vis_choice, selected_countries)
VisualizeData ==
    /\ pc = "menu"
    /\ \E v \in VisChoices :
          /\ df' = DfAfterVisualize(df, v)
          /\ IF VisDrawsNothing(v, selected_countries)
             THEN UNCHANGED <<pc, err, artifacts>>
             ELSE \E o \in LibraryOutcomes :
                     IF o = "ok"
                     THEN /\ artifacts' = artifacts \cup {ChartFile(v)}
                          /\ UNCHANGED <<pc, err>>
                     ELSE /\ pc' = "crashed"
                          /\ err' = "visualize_data"
                          /\ UNCHANGED artifacts
    /\ UNCHANGED <<file, comparable_countries_df, selected_countries,
                   panel_built, not_found_reported>>

\* choice '3': perform_panel_analysis(df_engineered)
PerformPanelAnalysis ==
    /\ pc = "menu"
    /\ df' = DfAfterPanel(df)
    /\ panel_built' = TRUE
    /\ \E o \in LibraryOutcomes :
          IF o = "ok"
          THEN /\ artifacts' = artifacts \cup {"panel_regression_summary.txt"}
               /\ UNCHANGED <<pc, err>>
          ELSE /\ pc' = "crashed"
               /\ err' = "perform_panel_analysis"
               /\ UNCHANGED artifacts
    /\ UNCHANGED <<file, comparable_countries_df, selected_countries,
                   not_found_reported>>

\* choice '4': break
Exit ==
    /\ pc = "menu"
    /\ pc' = "done"
    /\ UNCHANGED <<file, df, comparable_countries_df, selected_countries,
                   artifacts, panel_built, not_found_reported, err>>

\* any other choice: the loop prints and asks again
InvalidChoice ==
    /\ pc = "menu"
    /\ UNCHANGED vars

Next ==
    \/ CallDataPreparation
    \/ CallFeatureEngineering
    \/ CallGetComparableCountries
    \/ PerformRegression
    \/ VisualizeData
    \/ PerformPanelAnalysis
    \/ Exit
    \/ InvalidChoice

Spec == Init /\ [][Next]_vars

\* data_preparation alone, over files with missing cells
NextPrep == CallDataPreparation

SpecPrep == InitPrep /\ [][NextPrep]_vars

\* main up to the menu, over files of several countries
NextSel ==
    \/ CallDataPreparation
    \/ CallFeatureEngineering
    \/ CallGetComparableCountries

SpecSel == InitSel /\ [][NextSel]_vars


----------------------------------------------------------------------------
(* Properties *)

\* feature_engineering has returned
Enriched == ~df.isNone /\ pc \in {"select", "menu", "done", "crashed"}

\* get_comparable_countries has returned
Selected == ~df.isNone /\ pc \in {"menu", "done", "crashed"}

\* C1: every enriched row carries the income group of the band its per capita
\* GNI lies in: Low up to 1145, LowerMiddle above 1145 up to 4515,
\* UpperMiddle above 4515 up to 14005, High above 14005; 1145, 4515 and 14005
\* fall in the lower band and 1145.01, 4515.01 and 14005.01 in the next one.
C1_IncomeBands ==
    Enriched =>
        \A i \in DOMAIN df.rows :
            LET g == df.rows[i]["Per capita GNI"]
                ig == df.rows[i]["Income_Group"]
            IN  /\ (g <= 114500) <=> (ig = "Low income")
                /\ (114500 < g /\ g <= 451500) <=> (ig = "Lower middle income")
                /\ (451500 < g /\ g <= 1400500) <=> (ig = "Upper middle income")
                /\ (g > 1400500) <=> (ig = "High income")
                /\ g = 114501 => ig = "Lower middle income"
                /\ g = 451501 => ig = "Upper middle income"
                /\ g = 1400501 => ig = "High income"

C1_Witness ==
    /\ Enriched
    /\ \E i, j \in DOMAIN df.rows :
          /\ df.rows[i]["Per capita GNI"] = 1400500
          /\ df.rows[i]["Income_Group"] = "Upper middle income"
          /\ df.rows[j]["Per capita GNI"] = 1400501
          /\ df.rows[j]["Income_Group"] = "High income"

ShareColumns == {"Agriculture_Share", "Manufacturing_Share", "Transport_Comm_Share"}

\* C5: a row whose GDP is zero makes feature_engineering raise a DataError, so
\* no enriched row carries an infinite or undefined share.
C5_NoDegenerateShare ==
    Enriched =>
        \A i \in DOMAIN df.rows :
            /\ df.rows[i]["GDP"] # 0
            /\ \A c \in ShareColumns : df.rows[i][c].k = "fin"

\* C6: when the file is missing, data_preparation reports it and returns
\* None, main returns, and nothing after it runs: no enrichment, no selection,
\* no regression, no menu, no file written.
C6_MissingFileAborts ==
    ~file.exists =>
        /\ pc \in {"prepare", "done"}
        /\ pc = "done" => not_found_reported
        /\ df = NoneFrame
        /\ comparable_countries_df = <<>>
        /\ selected_countries = <<>>
        /\ artifacts = {}
        /\ ~panel_built
        /\ err = "none"

C6_Witness == ~file.exists /\ pc = "done" /\ not_found_reported /\ df.isNone

\* C7: a frame holding a (Country, Year) pair twice is rejected before the
\* fixed-effects model is built, and no panel summary is written.
C7_DuplicateKeyRejected ==
    (Enriched /\ HasDuplicateKey(df.rows)) =>
        /\ ~panel_built
        /\ "panel_regression_summary.txt" \notin artifacts

\* the cell of a row of the file under the header labelled name
RawCell(r, name) == r[CHOOSE h \in DOMAIN r : h.name = name /\ h.lead = h.trail]

RawComplete(r) ==
    \A name \in {"Country", "Year", "Population", "Gross Domestic Product (GDP)",
                 "Per capita GNI",
                 "Agriculture, hunting, forestry, fishing (ISIC A-B)",
                 "Manufacturing (ISIC D)",
                 "Transport, storage and communication (ISIC I)"} :
        RawCell(r, name) # NA

\* the file's k-th complete row
KthComplete(k) ==
    CHOOSE i \in DOMAIN file.rows :
        /\ RawComplete(file.rows[i])
        /\ Cardinality({j \in 1..i : RawComplete(file.rows[j])}) = k

\* C8: the frame data_preparation returns holds exactly the rows of the file
\* that have a value in all 8 retained fields, in the file's order, under the
\* 8 new column names: no row of it has a missing value and no complete row
\* is dropped.
C8_CleanedRows ==
    (pc # "prepare" /\ file.exists) =>
        /\ ~df.isNone
        /\ Len(df.rows) =
              Cardinality({i \in DOMAIN file.rows : RawComplete(file.rows[i])})
        /\ \A k \in DOMAIN df.rows :
              LET r == df.rows[k]
                  raw == file.rows[KthComplete(k)]
              IN  /\ DOMAIN r = {"Country", "Year", "Population", "GDP",
                                 "Per capita GNI", "Agriculture", "Manufacturing",
                                 "Transport_Comm"}
                  /\ \A c \in DOMAIN r : r[c] # NA
                  /\ r["Country"] = RawCell(raw, "Country")
                  /\ r["Year"] = RawCell(raw, "Year")
                  /\ r["Population"] = RawCell(raw, "Population")
                  /\ r["GDP"] = RawCell(raw, "Gross Domestic Product (GDP)")
                  /\ r["Per capita GNI"] = RawCell(raw, "Per capita GNI")
                  /\ r["Agriculture"] =
                        RawCell(raw, "Agriculture, hunting, forestry, fishing (ISIC A-B)")
                  /\ r["Manufacturing"] = RawCell(raw, "Manufacturing (ISIC D)")
                  /\ r["Transport_Comm"] =
                        RawCell(raw, "Transport, storage and communication (ISIC I)")

\* a file with padded headers whose first row lacks a retained field and whose
\* second row lacks only the column that is not retained
C8_Witness ==
    /\ pc = "engineer"
    /\ Len(file.rows) = 2
    /\ \E h \in DOMAIN file.rows[1] : h.lead = 1
    /\ RawCell(file.rows[1], "Per capita GNI") = NA
    /\ RawCell(file.rows[2], "CountryID") = NA
    /\ Len(df.rows) = 1
    /\ df.rows[1]["Country"] = RawCell(file.rows[2], "Country")

----------------------------------------------------------------------------
(* Properties of get_comparable_countries *)

CountriesOf == {df.rows[i]["Country"] : i \in DOMAIN df.rows}

RowsFor(c) == {i \in DOMAIN df.rows : df.rows[i]["Country"] = c}

\* the total Population of the rows 1..k of country c
RECURSIVE PopTotal(_, _)
PopTotal(c, k) ==
    IF k = 0 THEN 0
    ELSE PopTotal(c, k - 1)
         + (IF df.rows[k]["Country"] = c THEN df.rows[k]["Population"] ELSE 0)

\* 10,000,000 <= mean Population of c <= 50,000,000
MeanInBand(c) ==
    /\ 10000000 * Cardinality(RowsFor(c)) <= PopTotal(c, Len(df.rows))
    /\ PopTotal(c, Len(df.rows)) <= 50000000 * Cardinality(RowsFor(c))

Retained == {comparable_countries_df[k].Country : k \in DOMAIN comparable_countries_df}

\* C9: a country is retained if and only if the mean of its Population over
\* all its rows lies in [10,000,000; 50,000,000], both ends included, and a
\* country outside the band is never in the returned list.
C9_PopulationBand ==
    Selected =>
        /\ Retained \subseteq CountriesOf
        /\ \A c \in CountriesOf : (c \in Retained) <=> MeanInBand(c)
        /\ \A k \in DOMAIN selected_countries : MeanInBand(selected_countries[k])

\* a mean of exactly 10,000,000, a mean of exactly 50,000,000, and a country
\* of mean 60,000,000 with one year inside the band
C9_Witness ==
    /\ pc = "menu"
    /\ \E a, b, o \in CountriesOf :
          /\ Cardinality(RowsFor(a)) = 2 /\ PopTotal(a, Len(df.rows)) = 20000000
          /\ a \in Range(selected_countries)
          /\ Cardinality(RowsFor(b)) = 2 /\ PopTotal(b, Len(df.rows)) = 100000000
          /\ b \in Range(selected_countries)
          /\ Cardinality(RowsFor(o)) = 2 /\ PopTotal(o, Len(df.rows)) = 120000000
          /\ \E i \in RowsFor(o) : df.rows[i]["Population"] = 30000000
          /\ o \notin Range(selected_countries)

\* C2: the returned list holds at most 12 countries and no country twice.
C2_NoDuplicates ==
    Selected =>
        /\ Len(selected_countries) <= 12
        /\ \A i, j \in DOMAIN selected_countries :
              i # j => selected_countries[i] # selected_countries[j]

FirstRow(c) == CHOOSE i \in RowsFor(c) : \A j \in RowsFor(c) : i <= j

\* C3: every retained country is mapped to exactly one income group, the
\* Income_Group of its first row, and is considered under that group only.
C3_OneGroupPerCountry ==
    Selected =>
        \A k \in DOMAIN comparable_countries_df :
            LET t == comparable_countries_df[k]
            IN  /\ t.Income_Group = df.rows[FirstRow(t.Country)]["Income_Group"]
                /\ \A l \in DOMAIN comparable_countries_df :
                      comparable_countries_df[l].Country = t.Country => l = k

\* the countries that qualify for a group: mean Population in the band and
\* the group's label on one of their rows
Qualifying(g) ==
    {c \in CountriesOf :
        MeanInBand(c) /\ \E i \in RowsFor(c) : df.rows[i]["Income_Group"] = g}

NameRank(S, c) == Cardinality({x \in S : x < c})

FirstRank(S, c) == Cardinality({x \in S : FirstRow(x) < FirstRow(c)})

\* the first 3 of S, in ascending order of name
TakeByName(S) ==
    LET T == {c \in S : NameRank(S, c) < 3}
    IN  [k \in 1..Cardinality(T) |-> CHOOSE c \in T : NameRank(S, c) = k - 1]

\* the first 3 of S, in the order of their first rows
TakeByFirstRow(S) ==
    LET T == {c \in S : FirstRank(S, c) < 3}
    IN  [k \in 1..Cardinality(T) |-> CHOOSE c \in T : FirstRank(S, c) = k - 1]

TheOne(S) == CHOOSE c \in S : TRUE

----------------------------------------------------------------------------
(* Properties of the menu loop *)

\* C10: once feature_engineering has returned the frame never changes, and
\* once get_comparable_countries has returned the selected list never changes,
\* whatever the menu runs.
C10_FrameUnchanged ==
    [][ /\ (pc \in {"select", "menu", "done", "crashed"} => df' = df)
        /\ (pc \in {"menu", "done", "crashed"} =>
               selected_countries' = selected_countries) ]_vars

AllArtifacts ==
    {"regression_summary.txt", "panel_regression_summary.txt"}
    \cup {ChartFile(v) : v \in {"1", "2", "3", "4", "5"}}

\* the regression, the panel analysis and the five charts have all run
C10_Witness ==
    /\ pc = "menu"
    /\ artifacts = AllArtifacts
    /\ panel_built
    /\ Len(df.rows) = 2
    /\ selected_countries # <<>>

============================================================================
